---------------------------- MODULE Spec2Model ----------------------------
(***************************************************************************)
(* Metric tree demo (tree.c): a BK-tree, a VP-tree and a linear index over *)
(* 32-bit keys under the Hamming distance, with range queries that append  *)
(* their matches to a growable buffer (struct buf).                        *)
(*                                                                         *)
(* Memory is modelled as a heap: a sequence of node records addressed by   *)
(* their index, with 0 for the NULL pointer.  C arrays are sequences; the  *)
(* C index i is the sequence index i + 1.                                  *)
(***************************************************************************)
EXTENDS Integers, Sequences, FiniteSets, Bags, TLC

\* ------------------------------------------------------------------ bounds
\* Keys are drawn from 0..MaxKey (the program draws them from irand()).
MaxKey == 4
\* The key array holds 1..MaxKeys keys (NKEYS on the command line).
MaxKeys == 4
\* MAXLIN on the command line is drawn from 0..MaxLin.
MaxLin == 2
\* A DIST argument is drawn from 0..MaxRadius, or is MAX_DISTANCE.
MaxRadius == 4
\* Queries are only run on key arrays of at most MaxQueryKeys keys, and at most
\* MaxQueries of them in a run (NQUERY on the command line).
MaxQueryKeys == 3
MaxQueries == 1
\* The buffer specification appends keys until n reaches MaxBufLen.
MaxBufLen == 17
\* size_t arithmetic is unsigned and wraps; it is modelled modulo SizeMod.
SizeMod == 2 ^ 16

\* ------------------------------------------------------- program constants
MAX_DISTANCE == 32
BUF_INITIAL == 16
NULL == 0
\* The content of a cell that was allocated and never written.
UNINIT == -1

Keys == 0..MaxKey
\* The DIST arguments drawn: the small ones, and 0 and MAX_DISTANCE, which main
\* refuses.
DistArgs == (0..MaxRadius) \cup {MAX_DISTANCE}
\* if (dist >= MAX_DISTANCE || dist <= 0) return 1; otherwise main goes on.
dist_ok(d) == ~(d >= MAX_DISTANCE \/ d <= 0)
\* The keys the buffer specification appends: two values show order and duplicates.
BufKeySet == {0, 1}
\* What a read of dcnt[MAX_DISTANCE + 1], one cell past the array, may yield.
OobValues == {0, 1, SizeMod - 1}

\* ---------------------------------------------------------------- metric
RECURSIVE BitAnd(_, _)
BitAnd(x, y) ==
    IF x = 0 \/ y = 0 THEN 0
    ELSE (x % 2) * (y % 2) + 2 * BitAnd(x \div 2, y \div 2)

RECURSIVE BitXor(_, _)
BitXor(x, y) ==
    IF x = 0 THEN y
    ELSE IF y = 0 THEN x
    ELSE ((x + y) % 2) + 2 * BitXor(x \div 2, y \div 2)

Shr(x, s) == x \div (2 ^ s)

M55 == 1431655765
M33 == 858993459
M0F == 252645135

\* distance(), the variant compiled when HAVE_POPCNT is 0 (the default).
distance_swar(x, y) ==
    LET d0 == BitXor(x, y)
        d1 == BitAnd(d0, M55) + BitAnd(Shr(d0, 1), M55)
        d2 == BitAnd(d1, M33) + BitAnd(Shr(d1, 2), M33)
        d3 == BitAnd(d2 + Shr(d2, 4), M0F)
        d4 == d3 + Shr(d3, 8)
        d5 == d4 + Shr(d4, 16)
    IN  BitAnd(d5, 63)

\* The distances of all pairs of keys, computed once.
DistTable == [x \in Keys |-> [y \in Keys |-> distance_swar(x, y)]]

distance(x, y) == DistTable[x][y]

\* ------------------------------------------------------------ struct buf
EmptyBuf == [keys |-> <<>>, n |-> 0, a |-> 0]

\* xmalloc(sizeof(*np) * na): na cells, none written yet.
RECURSIVE xmalloc_keys(_)
xmalloc_keys(na) == IF na = 0 THEN <<>> ELSE Append(xmalloc_keys(na - 1), UNINIT)

\* memcpy(np, src, sizeof(*np) * cnt): the first cnt cells of src over np.
RECURSIVE memcpy_loop(_, _, _, _)
memcpy_loop(np, src, cnt, i) ==
    IF i >= cnt THEN np
    ELSE memcpy_loop([np EXCEPT ![i + 1] = src[i + 1]], src, cnt, i + 1)

memcpy_keys(np, src, cnt) == memcpy_loop(np, src, cnt, 0)

buf_newcap(a) == IF a # 0 THEN 2 * a ELSE BUF_INITIAL

buf_full(b) == b.n >= b.a

buf_grow(b) ==
    LET na == buf_newcap(b.a)
        np == memcpy_keys(xmalloc_keys(na), b.keys, b.n)
    IN  [b EXCEPT !.keys = np, !.a = na]

\* A faulty store that increments n before indexing (keys[++n] = k).
buf_store_preinc(b, k) == [b EXCEPT !.keys[b.n + 2] = k, !.n = b.n + 1]

buf_store(b, k) == [b EXCEPT !.keys[b.n + 1] = k, !.n = b.n + 1]

addkey(b, k) == buf_store(IF buf_full(b) THEN buf_grow(b) ELSE b, k)

\* q.n = 0 in main's query loop: the storage and its content stay.
buf_clear(b) == [b EXCEPT !.n = 0]

\* keys[0..n) of a buffer.
BufKeys(b) == SubSeq(b.keys, 1, b.n)


\* ----------------------------------------------------------- linear scan
\* for (i = 0; i < n; ++i) if (distance(ref, keys[i]) <= maxd) addkey(b, keys[i]);
\* the loop of query_linear and of the leaf case of query_bk and query_vp.
RECURSIVE scan_loop(_, _, _, _, _, _)
scan_loop(b, keys, n, i, ref, maxd) ==
    IF i >= n THEN b
    ELSE scan_loop(IF distance(ref, keys[i + 1]) <= maxd
                       THEN addkey(b, keys[i + 1]) ELSE b,
                   keys, n, i + 1, ref, maxd)

\* memcpy(tmp, keys, sizeof(*tmp) * n) into a fresh array of n cells.
copy_keys(keys, n) == memcpy_keys(xmalloc_keys(n), keys, n)

\* ---------------------------------------------------------- linear index
\* A heap is a sequence of nodes; xmalloc gives the next address.
mktree_linear(h, keys, n, max_linear) ==
    [heap |-> Append(h, [count |-> n, keys |-> copy_keys(keys, n)]),
     root |-> Len(h) + 1]

query_linear(b, h, root, ref, maxd) ==
    [b       |-> scan_loop(b, h[root].keys, h[root].count, 0, ref, maxd),
     nc      |-> h[root].count,
     visited |-> <<root>>]

\* ---------------------------------------------- leaf rule (both trees)
\* A faulty leaf test with a strict comparison against max_linear.
is_leaf_strict(n, max_linear) == n < max_linear \/ n <= 1

\* if (n <= max_linear || n <= 1)
is_leaf(n, max_linear) == n <= max_linear \/ n <= 1

\* ------------------------------------------------- histogram (both trees)
\* for (i = 0; i <= MAX_DISTANCE; ++i) dcnt[i] = 0;
RECURSIVE zero_loop(_)
zero_loop(i) == IF i = 0 THEN (0 :> 0) ELSE zero_loop(i - 1) @@ (i :> 0)

zero_dcnt == zero_loop(MAX_DISTANCE)

\* for (i = 0; i < n; ++i) dcnt[distance(rootkey, keys[i])]++;
RECURSIVE count_loop(_, _, _, _, _)
count_loop(dcnt, rootkey, keys, n, i) ==
    IF i >= n THEN dcnt
    ELSE LET d == distance(rootkey, keys[i + 1])
         IN  count_loop([dcnt EXCEPT ![d] = @ + 1], rootkey, keys, n, i + 1)

\* for (i = 0, a = 0; i <= MAX_DISTANCE; ++i) dcnt[i] = (a += dcnt[i]);
\* st holds the loop's variables dcnt, i and a.
RECURSIVE prefix_loop(_)
prefix_loop(st) ==
    IF st.i > MAX_DISTANCE THEN st.dcnt
    ELSE prefix_loop([dcnt |-> [st.dcnt EXCEPT ![st.i] = st.a + st.dcnt[st.i]],
                      i    |-> st.i + 1,
                      a    |-> st.a + st.dcnt[st.i]])

\* The cumulative histogram of the distances of keys[0..n) to rootkey.
cumulative(rootkey, keys, n) ==
    prefix_loop([dcnt |-> count_loop(zero_dcnt, rootkey, keys, n, 0), i |-> 0, a |-> 0])

\* ---------------------------------------------------------------- BK-tree
\* struct bktree; the union's two members are both fields of the record.
bk_leaf(keys, n) ==
    [distance |-> 0, linear |-> 1, key |-> 0, child |-> NULL,
     count |-> n, keys |-> copy_keys(keys, n), sibling |-> NULL]

bk_internal(rootkey) ==
    [distance |-> 0, linear |-> 0, key |-> rootkey, child |-> NULL,
     count |-> 0, keys |-> <<>>, sibling |-> NULL]

\* for (i = 0; i < n; ++i) tmp[--pos[distance(rootkey, keys[i])]] = keys[i];
RECURSIVE bk_sort_loop(_, _, _, _, _, _)
bk_sort_loop(tmp, pos, rootkey, keys, n, i) ==
    IF i >= n THEN tmp
    ELSE LET d == distance(rootkey, keys[i + 1])
         IN  bk_sort_loop([tmp EXCEPT ![pos[d]] = keys[i + 1]],
                          [pos EXCEPT ![d] = @ - 1], rootkey, keys, n, i + 1)

\* The counting sort of keys[0..n) by distance to rootkey (pos starts as dcnt).
bk_sort(rootkey, keys, n, dcnt) ==
    bk_sort_loop(xmalloc_keys(n), dcnt, rootkey, keys, n, 0)

\* The first bucket distance of the child loop: for (i = 1, ...
bk_first_bucket == 1

\* A faulty link that always stores the new child as the first child.
bk_link_first(h, root, prev, child) == [h EXCEPT ![root].child = child]

\* prev->sibling = child, or root->data.tree.child = child for the first one.
bk_link(h, root, prev, child) ==
    IF prev # NULL THEN [h EXCEPT ![prev].sibling = child]
    ELSE [h EXCEPT ![root].child = child]

\* The next i in from..MAX_DISTANCE whose bucket is not empty (the iterations
\* in between take the "if (!len) continue;"), or MAX_DISTANCE + 1.
bk_next_bucket(dcnt, from) ==
    LET full == {i \in from..MAX_DISTANCE : dcnt[i] - dcnt[i - 1] # 0}
    IN  IF full = {} THEN MAX_DISTANCE + 1
        ELSE CHOOSE i \in full : \A j \in full : i <= j

RECURSIVE mktree_bk(_, _, _, _)
RECURSIVE bk_child_loop(_, _, _, _, _, _, _)

\* for (i = 1, prev = NULL; i <= MAX_DISTANCE; ++i) { ... }, entered at i = from
bk_child_loop(h, root, tmp, dcnt, from, prev, max_linear) ==
    LET i == bk_next_bucket(dcnt, from)
    IN  IF i > MAX_DISTANCE THEN h
        ELSE LET off == dcnt[i - 1]
                 len == dcnt[i] - off
                 r   == mktree_bk(h, SubSeq(tmp, off + 1, off + len), len, max_linear)
                 h2  == [r.heap EXCEPT ![r.root].distance = i]
             IN  bk_child_loop(bk_link(h2, root, prev, r.root), root, tmp,
                               dcnt, i + 1, r.root, max_linear)

mktree_bk(h, keys, n, max_linear) ==
    LET root == Len(h) + 1
    IN  IF is_leaf(n, max_linear)
        THEN [heap |-> Append(h, bk_leaf(keys, n)), root |-> root]
        ELSE LET rootkey == keys[1]
                 h1      == Append(h, bk_internal(rootkey))
                 n1      == n - 1
                 keys1   == Tail(keys)
             IN  IF n1 = 0 THEN [heap |-> h1, root |-> root]
                 ELSE LET dcnt == cumulative(rootkey, keys1, n1)
                          tmp  == bk_sort(rootkey, keys1, n1, dcnt)
                      IN  [heap |-> bk_child_loop(h1, root, tmp, dcnt,
                                                  bk_first_bucket, NULL, max_linear),
                           root |-> root]

\* for (; p && p->distance + maxd < d; p = p->sibling);
bk_skip(c, maxd, d) == c + maxd < d

\* A faulty upper window test that stops one bucket early.
bk_take_strict(c, maxd, d) == c < maxd + d

\* for (; p && p->distance <= maxd + d; p = p->sibling)
bk_take(c, maxd, d) == c <= maxd + d

RECURSIVE bk_skip_loop(_, _, _, _)
bk_skip_loop(h, p, maxd, d) ==
    IF p # NULL /\ bk_skip(h[p].distance, maxd, d)
    THEN bk_skip_loop(h, h[p].sibling, maxd, d)
    ELSE p

\* A faulty count that does not count the center.
bk_self_count_none == 1 - 1

\* size_t nc = 1;
bk_self_count == 1

RECURSIVE query_bk(_, _, _, _, _)
RECURSIVE bk_visit_loop(_, _, _, _, _, _)

\* The second loop of query_bk; r carries b, nc and the nodes visited so far.
bk_visit_loop(r, h, p, ref, maxd, d) ==
    IF p # NULL /\ bk_take(h[p].distance, maxd, d)
    THEN LET s == query_bk(r.b, h, p, ref, maxd)
         IN  bk_visit_loop([b |-> s.b, nc |-> r.nc + s.nc,
                            visited |-> r.visited \o s.visited],
                           h, h[p].sibling, ref, maxd, d)
    ELSE r

query_bk(b, h, root, ref, maxd) ==
    IF h[root].linear # 0
    THEN [b       |-> scan_loop(b, h[root].keys, h[root].count, 0, ref, maxd),
          nc      |-> h[root].count,
          visited |-> <<root>>]
    ELSE LET d  == distance(h[root].key, ref)
             b1 == IF d <= maxd THEN addkey(b, h[root].key) ELSE b
             p  == bk_skip_loop(h, h[root].child, maxd, d)
         IN  bk_visit_loop([b |-> b1, nc |-> bk_self_count, visited |-> <<root>>],
                           h, p, ref, maxd, d)

\* ---------------------------------------------------------------- VP-tree
\* struct vptree; the union's two members are both fields of the record.
vp_leaf(keys, n) ==
    [linear |-> 1, threshold |-> 0, vantage |-> 0, near |-> NULL, far |-> NULL,
     count |-> n, keys |-> copy_keys(keys, n)]

vp_internal(rootkey) ==
    [linear |-> 0, threshold |-> 0, vantage |-> rootkey, near |-> NULL, far |-> NULL,
     count |-> 0, keys |-> <<>>]

\* A size_t difference: unsigned, wrapping.
size_sub(x, y) == (x - y) % SizeMod

\* A read of dcnt[k]: index MAX_DISTANCE + 1 is one cell past the array, and
\* the read yields whatever lies there (oob).
dcnt_read(dcnt, k, oob) == IF k \in 0..MAX_DISTANCE THEN dcnt[k] ELSE oob

\* A faulty median that is not halved.
vp_median_nohalf(dcnt, n) == dcnt[0] + (n - dcnt[0])

\* median = dcnt[0] + (n - dcnt[0]) / 2;
vp_median(dcnt, n) == dcnt[0] + (n - dcnt[0]) \div 2

\* for (k = 1; k <= MAX_DISTANCE; ++k) if (dcnt[k] > median) break;
RECURSIVE vp_search(_, _, _)
vp_search(dcnt, median, k) ==
    IF k <= MAX_DISTANCE /\ ~(dcnt[k] > median)
    THEN vp_search(dcnt, median, k + 1)
    ELSE k

\* if (k != 1 && median - dcnt[k-1] <= dcnt[k] - median) k--;
vp_tiebreak(dcnt, median, k, oob) ==
    IF k # 1 /\ size_sub(median, dcnt_read(dcnt, k - 1, oob))
                    <= size_sub(dcnt_read(dcnt, k, oob), median)
    THEN k - 1
    ELSE k

\* The indices of dcnt the search loop reads: dcnt[k] for every k it tests.
vp_search_reads(ks) == 1..(IF ks <= MAX_DISTANCE THEN ks ELSE MAX_DISTANCE)

\* The indices of dcnt the tie-break reads when it is entered with k = ks:
\* k != 1 is tested first, then dcnt[k-1] and dcnt[k] are both read.
vp_tiebreak_reads(ks) == IF ks # 1 THEN {ks - 1, ks} ELSE {}

\* The threshold chosen for the n remaining keys with cumulative histogram dcnt.
vp_threshold(dcnt, n, oob) ==
    vp_tiebreak(dcnt, vp_median(dcnt, n), vp_search(dcnt, vp_median(dcnt, n), 1), oob)

\* nnear = dcnt[k] - dcnt[0];
vp_nnear(dcnt, k, oob) == size_sub(dcnt_read(dcnt, k, oob), dcnt[0])

\* nfar = n - dcnt[k];
vp_nfar(dcnt, n, k, oob) == size_sub(n, dcnt_read(dcnt, k, oob))

\* if (keys[i] == rootkey) continue;
vp_skip_key(key, rootkey) == key = rootkey

\* if (distance(rootkey, keys[i]) <= k): the key goes to the near set.
vp_is_near(rootkey, key, k) == distance(rootkey, key) <= k

\* for (i = 0; i < n; ++i) { ... tmp[inear++] = keys[i] or tmp[ifar++] = keys[i] }
RECURSIVE vp_part_loop(_, _, _, _, _, _)
vp_part_loop(st, rootkey, keys, n, i, k) ==
    IF i >= n THEN st
    ELSE LET key == keys[i + 1]
         IN  IF vp_skip_key(key, rootkey)
             THEN vp_part_loop(st, rootkey, keys, n, i + 1, k)
             ELSE IF vp_is_near(rootkey, key, k)
             THEN vp_part_loop([st EXCEPT !.tmp[st.inear + 1] = key, !.inear = @ + 1],
                               rootkey, keys, n, i + 1, k)
             ELSE vp_part_loop([st EXCEPT !.tmp[st.ifar + 1] = key, !.ifar = @ + 1],
                               rootkey, keys, n, i + 1, k)

\* The partition of keys[0..n): tmp, and the final inear and ifar.
vp_partition(rootkey, keys, n, k, nnear, nfar) ==
    vp_part_loop([tmp |-> xmalloc_keys(nnear + nfar), inear |-> 0, ifar |-> nnear],
                 rootkey, keys, n, 0, k)

RECURSIVE mktree_vp(_, _, _, _, _)

\* if (nnear) root->data.tree.near = mktree_vp(tmp, nnear, max_linear);
vp_build_near(h, root, tmp, nnear, max_linear, oob) ==
    IF nnear # 0
    THEN LET r == mktree_vp(h, SubSeq(tmp, 1, nnear), nnear, max_linear, oob)
         IN  [r.heap EXCEPT ![root].near = r.root]
    ELSE h

\* A faulty far build that passes tmp instead of tmp + nnear.
vp_build_far_base(h, root, tmp, nnear, nfar, max_linear, oob) ==
    IF nfar # 0
    THEN LET r == mktree_vp(h, SubSeq(tmp, 1, nfar), nfar, max_linear, oob)
         IN  [r.heap EXCEPT ![root].far = r.root]
    ELSE h

\* if (nfar) root->data.tree.far = mktree_vp(tmp + nnear, nfar, max_linear);
vp_build_far(h, root, tmp, nnear, nfar, max_linear, oob) ==
    IF nfar # 0
    THEN LET r == mktree_vp(h, SubSeq(tmp, nnear + 1, nnear + nfar), nfar, max_linear, oob)
         IN  [r.heap EXCEPT ![root].far = r.root]
    ELSE h

mktree_vp(h, keys, n, max_linear, oob) ==
    LET root == Len(h) + 1
    IN  IF is_leaf(n, max_linear)
        THEN [heap |-> Append(h, vp_leaf(keys, n)), root |-> root]
        ELSE LET rootkey == keys[1]
                 h1      == Append(h, vp_internal(rootkey))
                 n1      == n - 1
                 keys1   == Tail(keys)
             IN  IF n1 = 0 THEN [heap |-> h1, root |-> root]
                 ELSE LET dcnt  == cumulative(rootkey, keys1, n1)
                          k     == vp_threshold(dcnt, n1, oob)
                          nnear == vp_nnear(dcnt, k, oob)
                          nfar  == vp_nfar(dcnt, n1, k, oob)
                          tmp   == vp_partition(rootkey, keys1, n1, k, nnear, nfar).tmp
                          h2    == [h1 EXCEPT ![root].threshold = k]
                          h3    == vp_build_near(h2, root, tmp, nnear, max_linear, oob)
                          h4    == vp_build_far(h3, root, tmp, nnear, nfar, max_linear, oob)
                      IN  [heap |-> h4, root |-> root]

\* if (d <= maxd + thr): the near side (and the vantage) is considered.
vp_near_test(d, maxd, thr) == d <= maxd + thr

\* A faulty far test that also descends when d + maxd equals the threshold.
vp_far_test_weak(d, maxd, thr) == d + maxd >= thr

\* if (d + maxd > thr && root->data.tree.far)
vp_far_test(d, maxd, thr) == d + maxd > thr

\* if (d <= maxd) addkey(b, root->data.tree.vantage);
vp_emit_test(d, maxd) == d <= maxd

\* size_t nc = 1;
vp_self_count == 1

RECURSIVE query_vp(_, _, _, _, _)

\* The near block of query_vp; r carries b, nc and the nodes visited so far.
vp_near_step(r, h, root, ref, maxd, d) ==
    LET s == IF h[root].near # NULL
             THEN LET t == query_vp(r.b, h, h[root].near, ref, maxd)
                  IN  [b |-> t.b, nc |-> r.nc + t.nc, visited |-> r.visited \o t.visited]
             ELSE r
    IN  IF vp_emit_test(d, maxd)
        THEN [s EXCEPT !.b = addkey(s.b, h[root].vantage)]
        ELSE s

vp_far_step(r, h, root, ref, maxd) ==
    LET t == query_vp(r.b, h, h[root].far, ref, maxd)
    IN  [b |-> t.b, nc |-> r.nc + t.nc, visited |-> r.visited \o t.visited]

query_vp(b, h, root, ref, maxd) ==
    IF h[root].linear # 0
    THEN [b       |-> scan_loop(b, h[root].keys, h[root].count, 0, ref, maxd),
          nc      |-> h[root].count,
          visited |-> <<root>>]
    ELSE LET d   == distance(h[root].vantage, ref)
             thr == h[root].threshold
             r0  == [b |-> b, nc |-> vp_self_count, visited |-> <<root>>]
             r1  == IF vp_near_test(d, maxd, thr)
                    THEN vp_near_step(r0, h, root, ref, maxd, d)
                    ELSE r0
         IN  IF vp_far_test(d, maxd, thr) /\ h[root].far # NULL
             THEN vp_far_step(r1, h, root, ref, maxd)
             ELSE r1

\* ------------------------------------------------------------------ state
VARIABLES
    pc,        \* where main is: "start", "build", "query", "refused" (return 1)
    type,      \* argv[1]: "bk", "vp" or "linear"
    maxlin,    \* argv[2]
    keys,      \* the generated key array (kept after free(keys) as the input)
    heap,      \* the allocated nodes
    root,      \* the address of the tree's root, NULL before the build
    q,         \* struct buf q
    ref,       \* the reference key of the last query
    dist,      \* the DIST argument last read
    nc,        \* the count the last query returned
    visited,   \* the nodes the last query was called on, in call order
    nqueries,  \* queries run so far (i of main's query loop)
    appended   \* the keys passed to addkey since the last clear

vars == <<pc, type, maxlin, keys, heap, root, q, ref, dist, nc, visited, nqueries, appended>>

Types == {"bk", "vp", "linear"}

\* struct buf q = { 0, 0, 0 }; nothing parsed, generated or built yet.
Init ==
    /\ pc = "start"
    /\ type = ""
    /\ maxlin = 0
    /\ keys = <<>>
    /\ heap = <<>>
    /\ root = NULL
    /\ q = EmptyBuf
    /\ ref = 0
    /\ dist = 0
    /\ nc = 0
    /\ visited = <<>>
    /\ nqueries = 0
    /\ appended = <<>>

\* main up to the key generation: the arguments and the keys are inputs.
Start ==
    /\ pc = "start"
    /\ \E t \in Types, ml \in 0..MaxLin, n \in 1..MaxKeys :
         \E ks \in [1..n -> Keys] :
            /\ type' = t
            /\ maxlin' = ml
            /\ keys' = ks
    /\ pc' = "build"
    /\ UNCHANGED <<heap, root, q, ref, dist, nc, visited, nqueries, appended>>

\* root = mktree(keys, nkeys, maxlin) with mktree = mktree_bk
BuildBk ==
    /\ pc = "build"
    /\ type = "bk"
    /\ LET r == mktree_bk(heap, keys, Len(keys), maxlin)
       IN  heap' = r.heap /\ root' = r.root
    /\ pc' = "query"
    /\ UNCHANGED <<type, maxlin, keys, q, ref, dist, nc, visited, nqueries, appended>>

\* root = mktree(keys, nkeys, maxlin) with mktree = mktree_vp
BuildVp ==
    /\ pc = "build"
    /\ type = "vp"
    /\ \E oob \in OobValues :
         LET r == mktree_vp(heap, keys, Len(keys), maxlin, oob)
         IN  heap' = r.heap /\ root' = r.root
    /\ pc' = "query"
    /\ UNCHANGED <<type, maxlin, keys, q, ref, dist, nc, visited, nqueries, appended>>

\* root = mktree(keys, nkeys, maxlin) with mktree = mktree_linear
BuildLinear ==
    /\ pc = "build"
    /\ type = "linear"
    /\ LET r == mktree_linear(heap, keys, Len(keys), maxlin)
       IN  heap' = r.heap /\ root' = r.root
    /\ pc' = "query"
    /\ UNCHANGED <<type, maxlin, keys, q, ref, dist, nc, visited, nqueries, appended>>

\* One iteration of main's query loop: ref = irand(); q.n = 0; nc = query(...),
\* with a dist that passed main's range test.  addkey is the only writer of q,
\* so the keys passed to it since q.n = 0 are the keys q holds afterwards.
QueryStep(t, r, d) ==
    LET b0  == buf_clear(q)
        res == IF t = "bk" THEN query_bk(b0, heap, root, r, d)
               ELSE IF t = "vp" THEN query_vp(b0, heap, root, r, d)
               ELSE query_linear(b0, heap, root, r, d)
    IN  /\ q' = res.b
        /\ nc' = res.nc
        /\ visited' = res.visited
        /\ ref' = r
        /\ dist' = d
        /\ nqueries' = nqueries + 1
        /\ appended' = BufKeys(res.b)
        /\ UNCHANGED <<pc, type, maxlin, keys, heap, root>>

QueryGuard ==
    /\ pc = "query"
    /\ nqueries < MaxQueries
    /\ Len(keys) <= MaxQueryKeys

QueryBk ==
    /\ QueryGuard
    /\ type = "bk"
    /\ \E r \in Keys, d \in DistArgs : dist_ok(d) /\ QueryStep("bk", r, d)

QueryVp ==
    /\ QueryGuard
    /\ type = "vp"
    /\ \E r \in Keys, d \in DistArgs : dist_ok(d) /\ QueryStep("vp", r, d)

QueryLinear ==
    /\ QueryGuard
    /\ type = "linear"
    /\ \E r \in Keys, d \in DistArgs : dist_ok(d) /\ QueryStep("linear", r, d)

\* dist = xatoul(argv[k]) fails main's range test: main prints the message and
\* returns 1 without running a query.
RefuseDist ==
    /\ pc = "query"
    /\ \E d \in DistArgs : ~dist_ok(d) /\ dist' = d
    /\ pc' = "refused"
    /\ UNCHANGED <<type, maxlin, keys, heap, root, q, ref, nc, visited, nqueries, appended>>

Next ==
    \/ Start
    \/ BuildBk
    \/ BuildVp
    \/ BuildLinear
    \/ QueryBk
    \/ QueryVp
    \/ QueryLinear
    \/ RefuseDist

\* The whole program.
Spec == Init /\ [][Next]_vars

NextBuild ==
    \/ Start
    \/ BuildBk
    \/ BuildVp
    \/ BuildLinear

\* The program up to the end of the tree construction.
SpecBuild == Init /\ [][NextBuild]_vars

\* ------------------------------------------- the buffer on its own
\* addkey(&q, k) for any key
BufAppend ==
    /\ q.n < MaxBufLen
    /\ \E k \in BufKeySet :
         /\ q' = addkey(q, k)
         /\ appended' = Append(appended, k)
    /\ UNCHANGED <<pc, type, maxlin, keys, heap, root, ref, dist, nc, visited, nqueries>>

\* q.n = 0
BufClear ==
    /\ q' = buf_clear(q)
    /\ appended' = <<>>
    /\ UNCHANGED <<pc, type, maxlin, keys, heap, root, ref, dist, nc, visited, nqueries>>

NextBuf ==
    \/ BufAppend
    \/ BufClear

\* Any sequence of appends and clears on one struct buf, from { 0, 0, 0 }.
SpecBuf == Init /\ [][NextBuf]_vars

\* ------------------------------------------------- reading a built tree
Range(s) == {s[i] : i \in DOMAIN s}

\* The bag (multiset) of the elements of a sequence.
SeqToBag(s) == [x \in Range(s) |-> Cardinality({i \in DOMAIN s : s[i] = x})]

Abs(x) == IF x < 0 THEN -x ELSE x

Max(x, y) == IF x >= y THEN x ELSE y

\* The keys of a leaf: keys[0..count).
LeafKeys(node) == SubSeq(node.keys, 1, node.count)

\* The children of BK node p, in sibling order, as a sequence of addresses.
RECURSIVE BkChain(_, _)
BkChain(h, c) == IF c = NULL THEN <<>> ELSE <<c>> \o BkChain(h, h[c].sibling)

BkChildren(h, p) == BkChain(h, h[p].child)

\* The keys stored in the BK subtree at p: leaf keys and centers.
RECURSIVE BkSubtree(_, _)
RECURSIVE BkForest(_, _)
BkForest(h, cs) ==
    IF cs = <<>> THEN <<>> ELSE BkSubtree(h, Head(cs)) \o BkForest(h, Tail(cs))

BkSubtree(h, p) ==
    IF h[p].linear # 0 THEN LeafKeys(h[p])
    ELSE <<h[p].key>> \o BkForest(h, BkChildren(h, p))

\* The keys stored in the VP subtree at p (NULL: none): leaf keys and vantages.
RECURSIVE VpSubtree(_, _)
VpSubtree(h, p) ==
    IF p = NULL THEN <<>>
    ELSE IF h[p].linear # 0 THEN LeafKeys(h[p])
    ELSE <<h[p].vantage>> \o VpSubtree(h, h[p].near) \o VpSubtree(h, h[p].far)

\* The keys of s within distance maxd of r, in order.
Within(s, r, maxd) ==
    LET Hit(x) == distance(r, x) <= maxd IN SelectSeq(s, Hit)

N == Len(keys)
Built == pc = "query"
Queried == pc = "query" /\ nqueries > 0
Visited == Range(visited)

\* What a linear scan of the input keys appends for the last query.
LinearAnswer == Within(keys, ref, dist)

\* ================================================================= claims

\* C1: the multiset of keys a BK or VP query appends equals the multiset a
\* linear query appends over the same key array (max_leaf_size >= 1, duplicate
\* keys allowed, any reference key, any radius main passes to the query).
C1_CrossValidation ==
    (Queried /\ type \in {"bk", "vp"} /\ maxlin >= 1)
        => SeqToBag(BufKeys(q)) = SeqToBag(LinearAnswer)

\* C2: the tree built by mktree_bk or mktree_vp stores every input key exactly
\* once, counted with multiplicity (in a leaf, or as a center or vantage).
C2_KeyPreservation ==
    /\ (Built /\ type = "bk") => SeqToBag(BkSubtree(heap, root)) = SeqToBag(keys)
    /\ (Built /\ type = "vp") => SeqToBag(VpSubtree(heap, root)) = SeqToBag(keys)

\* C3: at every internal BK node the query reaches, with d the distance of its
\* center to ref, the children recursed into are exactly those whose bucket
\* distance c has d - maxd <= c <= d + maxd, and a skipped child's subtree
\* holds no key within maxd of ref.
C3_BkPruning ==
    (Queried /\ type = "bk") =>
        \A p \in Visited :
            heap[p].linear = 0 =>
                LET d == distance(heap[p].key, ref)
                IN  \A ch \in Range(BkChildren(heap, p)) :
                        LET c == heap[ch].distance
                        IN  /\ (ch \in Visited) <=> (d - dist <= c /\ c <= d + dist)
                            /\ ch \notin Visited =>
                                 \A x \in Range(BkSubtree(heap, ch)) : distance(x, ref) > dist

\* A BK query that reached an internal node with at least two children,
\* recursed into one and skipped another, and found a key.
C3_Witness ==
    /\ Queried /\ type = "bk" /\ q.n > 0
    /\ \E p \in Visited :
         /\ heap[p].linear = 0
         /\ \E c1, c2 \in Range(BkChildren(heap, p)) : c1 \in Visited /\ c2 \notin Visited

\* What the visited VP nodes append: a leaf its keys within maxd, an internal
\* node its vantage when the vantage is within maxd.
RECURSIVE VpEmitted(_)
VpEmitted(ps) ==
    IF ps = <<>> THEN <<>>
    ELSE LET p == Head(ps)
         IN  (IF heap[p].linear # 0 THEN Within(LeafKeys(heap[p]), ref, dist)
              ELSE IF distance(heap[p].vantage, ref) <= dist THEN <<heap[p].vantage>>
              ELSE <<>>) \o VpEmitted(Tail(ps))

\* C4: at every internal VP node the query reaches, with d the distance of the
\* vantage to ref and thr the threshold, the near subtree (if present) is
\* visited iff d <= maxd + thr, the far subtree (if present) iff d + maxd > thr,
\* the vantage is appended iff d <= maxd, and a skipped subtree holds no key
\* within maxd of ref.
C4_VpPruning ==
    (Queried /\ type = "vp") =>
        /\ \A p \in Visited :
             heap[p].linear = 0 =>
                LET d   == distance(heap[p].vantage, ref)
                    thr == heap[p].threshold
                    nr  == heap[p].near
                    fr  == heap[p].far
                IN  /\ nr # NULL => ((nr \in Visited) <=> (d <= dist + thr))
                    /\ fr # NULL => ((fr \in Visited) <=> (d + dist > thr))
                    /\ (nr # NULL /\ nr \notin Visited) =>
                         \A x \in Range(VpSubtree(heap, nr)) : distance(x, ref) > dist
                    /\ (fr # NULL /\ fr \notin Visited) =>
                         \A x \in Range(VpSubtree(heap, fr)) : distance(x, ref) > dist
        /\ SeqToBag(BufKeys(q)) = SeqToBag(VpEmitted(visited))

\* A VP query that reached an internal node with both subtrees, visited one,
\* skipped the other and appended the vantage.
C4_Witness ==
    /\ Queried /\ type = "vp" /\ q.n > 0
    /\ \E p \in Visited :
         /\ heap[p].linear = 0
         /\ heap[p].near # NULL /\ heap[p].far # NULL
         /\ (heap[p].near \in Visited) # (heap[p].far \in Visited)
         /\ distance(heap[p].vantage, ref) <= dist

\* C5: a node built from n >= 1 keys is a leaf iff n <= max_leaf_size or
\* n = 1, and a leaf holds a copy of exactly those keys; so every leaf holds
\* between 1 and max(max_leaf_size, 1) keys, and exactly 1 when max_leaf_size
\* is 0 or 1.  (The iff is stated of the root, which is built from every key
\* array the bounds allow.)
C5_LeafRule ==
    (Built /\ type \in {"bk", "vp"}) =>
        /\ (heap[root].linear # 0) <=> (N <= maxlin \/ N = 1)
        /\ heap[root].linear # 0 => (heap[root].count = N /\ LeafKeys(heap[root]) = keys)
        /\ \A p \in DOMAIN heap :
             heap[p].linear # 0 =>
                /\ 1 <= heap[p].count
                /\ heap[p].count <= Max(maxlin, 1)
                /\ Len(heap[p].keys) = heap[p].count
                /\ \A x \in Range(heap[p].keys) : x \in Range(keys)
                /\ maxlin <= 1 => heap[p].count = 1

\* A built tree with an internal root, a leaf of max_leaf_size = 2 keys and a
\* leaf of one key.
C5_Witness ==
    /\ Built /\ type \in {"bk", "vp"} /\ maxlin = 2
    /\ heap[root].linear = 0
    /\ \E p1, p2 \in DOMAIN heap :
         /\ heap[p1].linear # 0 /\ heap[p1].count = 2
         /\ heap[p2].linear # 0 /\ heap[p2].count = 1

\* What a visited node adds to the examined count.
Examined(p) == IF heap[p].linear # 0 THEN heap[p].count ELSE 1

RECURSIVE SumExamined(_)
SumExamined(ps) ==
    IF ps = <<>> THEN 0 ELSE Examined(Head(ps)) + SumExamined(Tail(ps))

\* C6: query_linear returns the number of indexed keys; query_bk and query_vp
\* return the sum over the visited nodes of the leaf's key count or 1 for an
\* internal node, which never exceeds the number of indexed keys.
C6_ExaminedCount ==
    Queried =>
        /\ type = "linear" => nc = N
        /\ type \in {"bk", "vp"} => (nc = SumExamined(visited) /\ nc <= N)

\* A tree query that examined an internal node and a leaf of two keys.
C6_Witness ==
    /\ Queried /\ type \in {"bk", "vp"}
    /\ nc = 3
    /\ \E p1, p2 \in Visited :
         heap[p1].linear = 0 /\ heap[p2].linear # 0 /\ heap[p2].count = 2

\* The state part of C7.
BufState ==
    /\ q.n <= q.a
    /\ Len(q.keys) = q.a
    /\ BufKeys(q) = appended

\* The step part of C7.
BufStep ==
    /\ q'.a >= q.a
    /\ q'.a # q.a =>
         /\ q'.a = (IF q.a = 0 THEN BUF_INITIAL ELSE 2 * q.a)
         /\ SubSeq(q'.keys, 1, q.n) = SubSeq(q.keys, 1, q.n)
    /\ q'.n = 0 => q'.keys = q.keys

\* C7: after any sequence of appends and clears on one struct buf, n never
\* exceeds the capacity a, the capacity never decreases and a clear keeps the
\* storage, keys[0..n) are the keys appended since the last clear, in append
\* order with duplicates, and a growth step (0 -> 16, otherwise doubled)
\* changes none of the keys already held.
C7_Buffer == [](BufState) /\ [][BufStep]_vars

\* A buffer that grew twice, was cleared and holds two different keys again,
\* over the stale content of the storage.
C7_Witness ==
    /\ q.a = 2 * BUF_INITIAL
    /\ q.n = 3
    /\ appended = <<1, 0, 1>>
    /\ q.keys[BUF_INITIAL + 1] # UNINIT

\* C8: in every internal BK node the children, in sibling order, carry
\* strictly increasing bucket distances in 1..MAX_DISTANCE, and every key stored
\* in a child's subtree (at least one) is at exactly the child's distance from
\* the center; a child with bucket distance c exists iff one of the remaining
\* keys of the range is at distance exactly c from the center.  (The iff is
\* stated of the root, whose range is the input.)
C8_BkStructure ==
    (Built /\ type = "bk") =>
        /\ \A p \in DOMAIN heap :
             heap[p].linear = 0 =>
                LET cs == BkChildren(heap, p)
                IN  /\ \A i \in DOMAIN cs : heap[cs[i]].distance \in 1..MAX_DISTANCE
                    /\ \A i \in 1..(Len(cs) - 1) :
                         heap[cs[i]].distance < heap[cs[i + 1]].distance
                    /\ \A i \in DOMAIN cs :
                         LET sub == BkSubtree(heap, cs[i])
                         IN  /\ sub # <<>>
                             /\ \A x \in Range(sub) :
                                  distance(heap[p].key, x) = heap[cs[i]].distance
        /\ heap[root].linear = 0 =>
             \A c \in 1..MAX_DISTANCE :
                (\E ch \in Range(BkChildren(heap, root)) : heap[ch].distance = c)
                    <=> (\E i \in 2..N : distance(keys[1], keys[i]) = c)

\* A BK tree whose root has two children, one of them an internal node with a
\* child of its own.
C8_Witness ==
    /\ Built /\ type = "bk" /\ heap[root].linear = 0
    /\ Len(BkChildren(heap, root)) >= 2
    /\ \E ch \in Range(BkChildren(heap, root)) :
         heap[ch].linear = 0 /\ heap[ch].child # NULL

\* The remaining keys of the root's range (all but the vantage) and the
\* indices of those that belong on each side of the root's threshold.
Rest == Tail(keys)
RootNear ==
    {i \in DOMAIN Rest : /\ Rest[i] # heap[root].vantage
                         /\ distance(heap[root].vantage, Rest[i]) <= heap[root].threshold}
RootFar ==
    {i \in DOMAIN Rest : distance(heap[root].vantage, Rest[i]) > heap[root].threshold}

\* C9: in every internal VP node with vantage v and threshold k, every key in
\* the near subtree differs from v and is within k of v, and every key in the
\* far subtree is farther than k from v; the near child is present iff a
\* remaining key other than a copy of v is within k, the far child iff a
\* remaining key is farther than k; and nnear and nfar, computed from the
\* histogram, are the numbers of keys placed on each side.  (The last three
\* are stated of the root, whose range is the input.)
C9_VpStructure ==
    (Built /\ type = "vp") =>
        /\ \A p \in DOMAIN heap :
             heap[p].linear = 0 =>
                LET v == heap[p].vantage
                    k == heap[p].threshold
                IN  /\ \A x \in Range(VpSubtree(heap, heap[p].near)) :
                         x # v /\ distance(v, x) <= k
                    /\ \A x \in Range(VpSubtree(heap, heap[p].far)) :
                         distance(v, x) > k
        /\ heap[root].linear = 0 =>
             LET v    == heap[root].vantage
                 k    == heap[root].threshold
                 dcnt == cumulative(v, Rest, N - 1)
             IN  /\ (heap[root].near # NULL) <=> (RootNear # {})
                 /\ (heap[root].far # NULL) <=> (RootFar # {})
                 /\ \A oob \in OobValues :
                      LET nnear == vp_nnear(dcnt, k, oob)
                          nfar  == vp_nfar(dcnt, N - 1, k, oob)
                          part  == vp_partition(v, Rest, N - 1, k, nnear, nfar)
                      IN  /\ nnear = Cardinality(RootNear)
                          /\ nfar = Cardinality(RootFar)
                          /\ part.inear = nnear
                          /\ part.ifar = nnear + nfar

\* A VP tree whose root has a near and a far child and dropped a copy of its
\* vantage.
C9_Witness ==
    /\ Built /\ type = "vp" /\ heap[root].linear = 0
    /\ heap[root].near # NULL /\ heap[root].far # NULL
    /\ \E i \in DOMAIN Rest : Rest[i] = heap[root].vantage

\* The size of the largest distance bucket among the root's remaining keys.
BucketSize(d) ==
    Cardinality({i \in DOMAIN Rest : distance(heap[root].vantage, Rest[i]) = d})
MaxBucket ==
    CHOOSE m \in 0..N : /\ \E d \in 0..MAX_DISTANCE : BucketSize(d) = m
                        /\ \A d \in 0..MAX_DISTANCE : BucketSize(d) <= m

Imbalance == Abs(Cardinality(RootNear) - Cardinality(RootFar))

\* C10 as stated: the sizes of the near and far key sets of an internal VP
\* node differ by no more than the size of the largest distance bucket among
\* the remaining keys.
C10_Original ==
    (Built /\ type = "vp" /\ heap[root].linear = 0) => Imbalance <= MaxBucket

\* C10 as amended: they differ by no more than the size of the largest
\* distance bucket plus one.
C10_Balance ==
    (Built /\ type = "vp" /\ heap[root].linear = 0) => Imbalance <= MaxBucket + 1

\* An internal VP root where the tie-break chose the smaller k and the sides
\* differ by exactly the largest bucket plus one.
C10_Witness ==
    /\ Built /\ type = "vp" /\ heap[root].linear = 0
    /\ N = 4
    /\ Imbalance = MaxBucket + 1
    /\ heap[root].near = NULL /\ heap[root].far # NULL

\* The root's cumulative histogram, its median and the k at which the search
\* loop of mktree_vp ends, before the tie-break.
RootDcnt == cumulative(heap[root].vantage, Rest, N - 1)
RootMedian == vp_median(RootDcnt, N - 1)
RootSearchK == vp_search(RootDcnt, RootMedian, 1)

\* C11: for every range of n >= 2 keys that mktree_vp turns into an internal
\* node, the search for k stops at a k in 1..MAX_DISTANCE with
\* cumulative(k) > median, dcnt is only read at indices in 0..MAX_DISTANCE, and
\* the stored threshold lies in 1..MAX_DISTANCE.  (Stated of the root, whose
\* range is the input.)
C11_SearchInBounds ==
    (Built /\ type = "vp" /\ heap[root].linear = 0 /\ N >= 2) =>
        /\ RootSearchK \in 1..MAX_DISTANCE
        /\ RootDcnt[RootSearchK] > RootMedian
        /\ vp_search_reads(RootSearchK) \subseteq 0..MAX_DISTANCE
        /\ vp_tiebreak_reads(RootSearchK) \subseteq 0..MAX_DISTANCE
        /\ heap[root].threshold \in 1..MAX_DISTANCE

=============================================================================
